---- MODULE Spec2Model ----
(***************************************************************************)
(* State-machine model of GoalGraphRenderer (src/src/GoalGraphRenderer.ts) *)
(* and of the helpers it imports from src/src/utils.ts.                    *)
(*                                                                         *)
(* Numbers.  The renderer computes with IEEE doubles; the model computes   *)
(* with exact rationals kept as integers over a common denominator:        *)
(*   - dates are counted in ticks, TicksPerDay ticks to a calendar day,    *)
(*     tick 0 being 00:00 local time of a day whose weekday is             *)
(*     EpochWeekday (daylight-saving shifts are not modelled);             *)
(*   - horizontal pixel quantities (originalX, width, contentMinX,         *)
(*     contentMaxX, totalGraphContentWidth, viewOffsetX, sliderX,          *)
(*     dragStartX, dragStartOffsetX, pointer x) are numerators over        *)
(*     PxDen, so that Px(n) is n whole pixels;                             *)
(*   - a point's y is a numerator over YDen, a column's height and y are   *)
(*     numerators over maxDuration, yMin and yMax are in tenths of a       *)
(*     second;                                                             *)
(*   - canvasWidth, canvasHeight, graphWidth, graphHeight and pointer y    *)
(*     are whole pixels; times of the p.millis() clock are ms.             *)
(*                                                                         *)
(* Objects.  Points, columns and markers are records; hoveredItems holds   *)
(* the records of the objects it references.  An entity's currentX is      *)
(* originalX - viewOffsetX at the frame that reads it and is not kept.     *)
(***************************************************************************)
EXTENDS Integers, Sequences, FiniteSets, TLC

\* ---------------------------------------------------------------- bounds
TicksPerDay == 4
MaxTouches == 2
MaxTicks == 1
MaxActivities == 3

\* ------------------------------------------------------ program constants
PaddingTop == 50
PaddingRight == 10
PaddingBottom == 120
PaddingLeft == 10
PointSize == 10
KnobWidth == 16
KnobHeight == 20
TouchPadding == 25
MarkerHoverRadius == 5
DrawBuffer == 50
MinCanvas == 50
WiggleInterval == 8000
WiggleDuration == 500
WiggleCycles == 4
WeekStartDay == 1
FirstWeekNumber == 2
MinBufferSeconds == 30
TrialWorkoutType == 1
ThreeWeeksInMillis == 3 * 7 * TicksPerDay

\* ---------------------------------------------------------------- helpers
Max(a, b) == IF a >= b THEN a ELSE b
Min(a, b) == IF a <= b THEN a ELSE b
Abs(a) == IF a >= 0 THEN a ELSE -a

\* the element of a one-element set; The({ e : v \in {x} }) is e with v
\* standing for the value of x, worked out once
The(S) == CHOOSE x \in S : TRUE

\* p5's constrain(n, low, high) = Math.max(Math.min(n, high), low)
Constrain(n, low, high) == Max(Min(n, high), low)

\* Date.setHours(0, 0, 0, 0): the 00:00 tick of the date's calendar day
StartOfDay(d) == d - (d % TicksPerDay)

\* the weekday of the epoch day (tick 0); 0 = Sunday ... 6 = Saturday
EpochWeekday == 1

\* Date.getDay()
GetDay(d) == ((d \div TicksPerDay) + EpochWeekday) % 7

\* Date.setDate(getDate() + n): the same time of day n calendar days later
AddDays(d, n) == d + n * TicksPerDay

\* ------------------------------------------------------------------ state
VARIABLES
    startData,              \* [currentRaceTime, date]
    goalData,               \* [targetRaceTime, dateOfRace]
    activities,             \* sequence of SummaryActivity records
    timezoneOffset,         \* the host's time zone: ticks local time is ahead of UTC
    canvasWidth, canvasHeight, graphWidth, graphHeight, sliderTrackY,
    points, workoutColumns, weekMarkers, dayMarkers,
    yMin, yMax, maxDuration,
    contentMinX, contentMaxX,
    sliderX, hoveredItems, isDraggingSlider,
    viewMode, viewOffsetX, totalGraphContentWidth,
    isDraggingGraph, dragStartX, dragStartOffsetX,
    lastWiggleTime, isWiggling, wiggleStartTime,
    infoBox,                \* #info-box: [html, items], what drawInfoBox last wrote
    canvas,                 \* [layers, bars, wiggleOffsetX]: what draw() painted
                            \* since it last cleared the canvas with
                            \* p.background(255), and the sign of the offset from
                            \* sliderX at which it drew the knob
    touches,                \* event.touches: the touches now on the canvas
    millis,                 \* p.millis()
    looping,                \* p5's draw loop runs (p.noLoop() clears it)
    convString,             \* utils.ts: the string a conversion takes or returns
    convSeconds,            \* utils.ts: the number a conversion takes or returns
    convWarned              \* utils.ts: the last conversion reached console.warn

inputVars == <<startData, goalData, activities, timezoneOffset>>
layoutVars == <<canvasWidth, canvasHeight, graphWidth, graphHeight, sliderTrackY>>
geometryVars == <<points, workoutColumns, weekMarkers, dayMarkers, yMin, yMax,
                  maxDuration, contentMinX, contentMaxX, totalGraphContentWidth>>
dragVars == <<isDraggingSlider, isDraggingGraph, dragStartX, dragStartOffsetX>>
wiggleVars == <<lastWiggleTime, isWiggling, wiggleStartTime>>
hoverVars == <<hoveredItems, infoBox, canvas>>
utilVars == <<convString, convSeconds, convWarned>>
rendererVars == <<inputVars, layoutVars, geometryVars, dragVars, wiggleVars, hoverVars,
                  touches, sliderX, viewMode, viewOffsetX, millis, looping>>
vars == <<rendererVars, utilVars>>

\* ------------------------------------------------- time spans and scaling
FullTimeSpan == Max(1, goalData.dateOfRace - startData.date)

EffectiveTimeSpan(mode) ==
    IF mode = "3weeks"
    THEN LET threeWeeksBeforeGoal == goalData.dateOfRace - ThreeWeeksInMillis
             effectiveStartTime == Max(startData.date, threeWeeksBeforeGoal)
         IN  Max(1, goalData.dateOfRace - effectiveStartTime)
    ELSE FullTimeSpan

\* common denominator of all horizontal pixel quantities: every X the code
\* computes is a multiple of 1/(2 * effectiveTimeSpan) pixel
PxDen == 2 * FullTimeSpan * EffectiveTimeSpan("3weeks")
Px(n) == n * PxDen

TotalGraphContentWidth_unscaled(mode, gw) == Px(gw)

\* (fullTimeSpan / effectiveTimeSpan) * graphWidth
TotalGraphContentWidth(mode, gw) ==
    IF gw > 0 /\ EffectiveTimeSpan(mode) > 0
    THEN FullTimeSpan * gw * (PxDen \div EffectiveTimeSpan(mode))
    ELSE Px(gw)

\* (millisecondsPerDay / fullTimeSpan) * totalGraphContentWidth
DayWidth(total) == (TicksPerDay * total) \div FullTimeSpan

MapTimeToX_noPadding(date, total) ==
    ((date - startData.date) * total) \div FullTimeSpan

\* padding.left + ((date - startDate) / fullTimeSpan) * totalGraphContentWidth
MapTimeToX(date, total) ==
    Px(PaddingLeft) + ((date - startData.date) * total) \div FullTimeSpan

\* ------------------------------------------------------------ utils.ts
\* A string is kept as the sequence of its characters.
Digits == <<"0", "1", "2", "3", "4", "5", "6", "7", "8", "9">>
IsDigit(c) == \E d \in 1..10 : Digits[d] = c
DigitValue(c) == (CHOOSE d \in 1..10 : Digits[d] = c) - 1

\* The number NaN.  The numbers these helpers take and yield are NaN and the
\* integers from 0 on, so NaN is kept as a number below them; arithmetic and
\* comparisons that can meet it go through IsNaN.
NaN == -1
IsNaN(v) == v = NaN

\* a * b and a + b where an operand can be NaN
Times(a, b) == IF IsNaN(a) \/ IsNaN(b) THEN NaN ELSE a * b
Plus(a, b) == IF IsNaN(a) \/ IsNaN(b) THEN NaN ELSE a + b

\* str.split(sep) for a one-character separator
RECURSIVE SplitFrom(_, _, _, _, _)
SplitFrom(str, sep, k, part, parts) ==
    IF k > Len(str) THEN Append(parts, part)
    ELSE IF str[k] = sep THEN SplitFrom(str, sep, k + 1, <<>>, Append(parts, part))
    ELSE SplitFrom(str, sep, k + 1, Append(part, str[k]), parts)

Split(str, sep) == SplitFrom(str, sep, 1, <<>>, <<>>)

\* the value of the decimal numeral made of the first k characters of str
RECURSIVE DecimalValue(_, _)
DecimalValue(str, k) ==
    IF k = 0 THEN 0 ELSE 10 * DecimalValue(str, k - 1) + DigitValue(str[k])

\* Number(str) for a string of digits and letters: the empty string is 0, a
\* decimal numeral is its value, anything else is NaN
Number(str) ==
    IF \A k \in 1..Len(str) : IsDigit(str[k]) THEN DecimalValue(str, Len(str)) ELSE NaN

\* timeStr.split(' ')[0].split(':').map(Number)
TimeParts(timeStr) ==
    The({ [k \in 1..Len(fields) |-> Number(fields[k])] :
          fields \in {Split(Split(timeStr, " ")[1], ":")} })

\* parseTimeToSeconds: the number it returns
ParseTimeToSeconds(timeStr) ==
    The({ IF Len(parts) = 3
          THEN Plus(Plus(Times(parts[1], 3600), Times(parts[2], 60)), parts[3])
          ELSE IF Len(parts) = 2
          THEN Plus(Times(parts[1], 60), parts[2])
          ELSE 0 :
          parts \in {TimeParts(timeStr)} })

\* parseTimeToSeconds: whether it reaches console.warn
ParseTimeWarns(timeStr) == Len(TimeParts(timeStr)) \notin {2, 3}

\* String(n) of an integer n >= 0
RECURSIVE StringOf(_)
StringOf(n) ==
    IF n < 10 THEN <<Digits[n + 1]>>
    ELSE Append(StringOf(n \div 10), Digits[(n % 10) + 1])

\* str.padStart(targetLength, padChar)
PadStart(str, targetLength, padChar) ==
    IF Len(str) >= targetLength THEN str
    ELSE [k \in 1..(targetLength - Len(str)) |-> padChar] \o str

FormatSecondsToTime_twoDigitHours(totalSeconds) ==
    IF IsNaN(totalSeconds) \/ totalSeconds < 0
    THEN <<"0", "0", ":", "0", "0", ":", "0", "0">>
    ELSE PadStart(StringOf((totalSeconds \div 3600) % 100), 2, "0") \o <<":">>
         \o PadStart(StringOf((totalSeconds % 3600) \div 60), 2, "0") \o <<":">>
         \o PadStart(StringOf(totalSeconds % 60), 2, "0")

FormatSecondsToTime_unpadded(totalSeconds) ==
    IF IsNaN(totalSeconds) \/ totalSeconds < 0
    THEN <<"0", "0", ":", "0", "0", ":", "0", "0">>
    ELSE StringOf(totalSeconds \div 3600) \o <<":">>
         \o StringOf((totalSeconds % 3600) \div 60) \o <<":">>
         \o StringOf(totalSeconds % 60)

\* formatSecondsToTime of NaN or an integer
FormatSecondsToTime(totalSeconds) ==
    IF IsNaN(totalSeconds) \/ totalSeconds < 0
    THEN <<"0", "0", ":", "0", "0", ":", "0", "0">>
    ELSE LET hours == totalSeconds \div 3600
             minutes == (totalSeconds % 3600) \div 60
             seconds == totalSeconds % 60
         IN  PadStart(StringOf(hours), 2, "0") \o <<":">>
             \o PadStart(StringOf(minutes), 2, "0") \o <<":">>
             \o PadStart(StringOf(seconds), 2, "0")

\* ---------------------------------------------------------- processData
\* the value of the optional Point.activity of a start or goal point
NoActivity ==
    [id |-> 0, start_date_local |-> 0, moving_time |-> 0, workout_type |-> 0]

\* this.points = [] at the head of processData
ResetPoints_kept(prev) == prev
ResetPoints(prev) == <<>>

\* this.workoutColumns = []
ResetColumns_kept(prev) == prev
ResetColumns(prev) == <<>>

\* the start and goal points, in the order they are pushed
StartGoalPoints(total) ==
    LET halfDayWidth == DayWidth(total) \div 2
        startTimeSeconds == ParseTimeToSeconds(startData.currentRaceTime)
        goalTimeSeconds == ParseTimeToSeconds(goalData.targetRaceTime)
    IN  << [originalX |-> MapTimeToX(StartOfDay(startData.date), total) + halfDayWidth,
            y |-> 0, date |-> startData.date, timeSeconds |-> startTimeSeconds,
            displayTime |-> FormatSecondsToTime(startTimeSeconds),
            type |-> "start", activity |-> NoActivity],
           [originalX |-> MapTimeToX(StartOfDay(goalData.dateOfRace), total) + halfDayWidth,
            y |-> 0, date |-> goalData.dateOfRace, timeSeconds |-> goalTimeSeconds,
            displayTime |-> goalData.targetRaceTime,
            type |-> "goal", activity |-> NoActivity] >>

\* days from the start date to the first week-start day on or after it
DaysToNextWeekStart ==
    LET startDayOfWeek == GetDay(startData.date)
    IN  IF startDayOfWeek = WeekStartDay THEN 0
        ELSE IF startDayOfWeek < WeekStartDay THEN WeekStartDay - startDayOfWeek
        ELSE 7 - (startDayOfWeek - WeekStartDay)

\* the while loop that pushes the week markers
RECURSIVE WeekMarkerLoop(_, _, _, _, _)
WeekMarkerLoop(currentWeekStart, firstWeekStartChecked, displayedWeekCounter, total, acc) ==
    IF currentWeekStart > goalData.dateOfRace THEN acc
    ELSE IF ~firstWeekStartChecked /\ currentWeekStart - startData.date < 3 * TicksPerDay
    THEN WeekMarkerLoop(AddDays(currentWeekStart, 7), TRUE, displayedWeekCounter, total, acc)
    ELSE WeekMarkerLoop(AddDays(currentWeekStart, 7), TRUE, displayedWeekCounter + 1, total,
            Append(acc, [date |-> currentWeekStart,
                         originalX |-> MapTimeToX(currentWeekStart, total),
                         weekNumber |-> displayedWeekCounter]))

WeekMarkers_fromStart(total) ==
    WeekMarkerLoop(StartOfDay(startData.date), FALSE, FirstWeekNumber, total, <<>>)

WeekMarkers(total) ==
    WeekMarkerLoop(StartOfDay(AddDays(startData.date, DaysToNextWeekStart)),
                   FALSE, FirstWeekNumber, total, <<>>)

\* day markers of the initial partial week
RECURSIVE PartialWeekDays(_, _, _, _)
PartialWeekDays(currentDay, firstWeekMarkerDate, total, acc) ==
    IF currentDay < firstWeekMarkerDate /\ currentDay <= goalData.dateOfRace
    THEN PartialWeekDays(AddDays(currentDay, 1), firstWeekMarkerDate, total,
            Append(acc, [date |-> currentDay, originalX |-> MapTimeToX(currentDay, total),
                         dayName |-> GetDay(currentDay)]))
    ELSE acc

\* day markers of the six days after week start weekStart, from day i on
RECURSIVE FullWeekDays(_, _, _, _)
FullWeekDays(weekStart, i, total, acc) ==
    IF i > 6 THEN acc
    ELSE LET dayDate == AddDays(weekStart, i)
         IN  IF dayDate > goalData.dateOfRace
             THEN FullWeekDays(weekStart, i + 1, total, acc)
             ELSE FullWeekDays(weekStart, i + 1, total,
                     Append(acc, [date |-> dayDate, originalX |-> MapTimeToX(dayDate, total),
                                  dayName |-> (WeekStartDay + i) % 7]))

RECURSIVE AllFullWeekDays(_, _, _, _)
AllFullWeekDays(markers, k, total, acc) ==
    IF k > Len(markers) THEN acc
    ELSE AllFullWeekDays(markers, k + 1, total, FullWeekDays(markers[k].date, 1, total, acc))

DayMarkers(mode, markers, total) ==
    IF mode = "3weeks"
    THEN LET firstWeekMarkerDate ==
                 IF Len(markers) > 0 THEN markers[1].date ELSE goalData.dateOfRace
             partial == PartialWeekDays(StartOfDay(AddDays(startData.date, 1)),
                                        firstWeekMarkerDate, total, <<>>)
         IN  AllFullWeekDays(markers, 1, total, partial)
    ELSE <<>>

\* new Date(activity.start_date_local).getTime(); a record without the
\* field gives new Date(undefined), an Invalid Date, whose time is NaN
ActivityDate(activity) ==
    IF "start_date_local" \in DOMAIN activity THEN activity.start_date_local ELSE NaN

\* typeof activity.moving_time === 'number' && activity.moving_time > 0
IsValidTime(activity) ==
    "moving_time" \in DOMAIN activity /\ activity.moving_time > 0

\* activityDate < startDate || activityDate > goalDate: both comparisons are
\* false for an Invalid Date
OutsideRange(activityDate) ==
    /\ ~IsNaN(activityDate)
    /\ activityDate < startData.date \/ activityDate > goalData.dateOfRace

\* the activities.forEach loop: the trial points and the workout columns it
\* pushes onto pts and cols
RECURSIVE ProcessActivities(_, _, _, _)
ProcessActivities(k, total, pts, cols) ==
    IF k > Len(activities) THEN [points |-> pts, workoutColumns |-> cols]
    ELSE LET activity == activities[k]
             activityDate == ActivityDate(activity)
             isValidTime == IsValidTime(activity)
             isTrial == activity.workout_type = TrialWorkoutType
             columnStartX == IF IsNaN(activityDate) THEN NaN
                             ELSE MapTimeToX(StartOfDay(activityDate), total)
             halfDayWidth == DayWidth(total) \div 2
         IN  IF OutsideRange(activityDate)
             THEN ProcessActivities(k + 1, total, pts, cols)
             ELSE IF ~isValidTime
             THEN ProcessActivities(k + 1, total, pts, cols)
             ELSE ProcessActivities(k + 1, total,
                     IF isTrial
                     THEN Append(pts, [originalX |-> Plus(columnStartX, halfDayWidth), y |-> 0,
                                       date |-> activityDate,
                                       timeSeconds |-> activity.moving_time,
                                       displayTime |->
                                           FormatSecondsToTime(activity.moving_time),
                                       type |-> "trial", activity |-> activity])
                     ELSE pts,
                     Append(cols, [originalX |-> columnStartX, y |-> 0,
                                   width |-> DayWidth(total), height |-> 0,
                                   activity |-> activity, date |-> activityDate]))

\* the place sort() gives element k of items: after every element the
\* comparator (a, b) => a.date.getTime() - b.date.getTime() puts before it
\* and, the sort being stable, after the equal ones that precede it
PlaceByDate(items, k) ==
    1 + Cardinality({ i \in 1..Len(items) :
                        \/ items[i].date - items[k].date < 0
                        \/ items[i].date - items[k].date = 0 /\ i < k })

SortByDate_unsorted(s) == s

\* Array.prototype.sort by date
SortByDate(s) ==
    The({ [place \in 1..Len(items) |->
              items[CHOOSE k \in 1..Len(items) : PlaceByDate(items, k) = place]] :
          items \in {s} })

\* Math.min(...nums) and Math.max(...nums) of a non-empty sequence
SeqMin(nums) ==
    The({ CHOOSE m \in { v[k] : k \in 1..Len(v) } : \A k \in 1..Len(v) : m <= v[k] :
          v \in {nums} })

SeqMax(nums) ==
    The({ CHOOSE m \in { v[k] : k \in 1..Len(v) } : \A k \in 1..Len(v) : m >= v[k] :
          v \in {nums} })

TimesOf(pts) == [k \in 1..Len(pts) |-> pts[k].timeSeconds]
OriginalXsOf(pts) == [k \in 1..Len(pts) |-> pts[k].originalX]
MovingTimesOf(cols) == [k \in 1..Len(cols) |-> cols[k].activity.moving_time]

YScale_unclamped(pts) ==
    LET minYValue == SeqMin(TimesOf(pts))
        maxYValue == SeqMax(TimesOf(pts))
        yBuffer == Max(maxYValue - minYValue, 10 * MinBufferSeconds)
    IN  [yMin |-> 10 * minYValue - yBuffer, yMax |-> 10 * maxYValue + yBuffer]

\* Y-axis scaling, in tenths of a second:
\* yBuffer = max((max - min) * 0.1, 30), yMin = max(0, min - yBuffer)
YScale(pts) ==
    IF Len(pts) > 0
    THEN LET minYValue == SeqMin(TimesOf(pts))
             maxYValue == SeqMax(TimesOf(pts))
             yBuffer == Max(maxYValue - minYValue, 10 * MinBufferSeconds)
         IN  [yMin |-> Max(0, 10 * minYValue - yBuffer),
              yMax |-> 10 * maxYValue + yBuffer]
    ELSE [yMin |-> 0,
          yMax |-> 10 * ParseTimeToSeconds(<<"0", "2", ":", "0", "0", ":", "0", "0">>)]

\* Math.max(1, ...workoutColumns.map(col => col.activity.moving_time))
MaxDuration(cols) == IF Len(cols) > 0 THEN Max(1, SeqMax(MovingTimesOf(cols))) ELSE 1

\* denominator of the points' y: y = yNum / YDen(yMin, yMax)
YDen(lo, hi) == 10 * (hi - lo)

PointY_upward(timeSeconds, lo, hi, gh) ==
    PaddingTop * YDen(lo, hi) + (10 * timeSeconds - lo) * 9 * gh

\* padding.top + p.map(timeSeconds, yMin, yMax, graphHeight * 0.9, 0), as a
\* numerator over YDen(lo, hi)
PointY(timeSeconds, lo, hi, gh) ==
    PaddingTop * YDen(lo, hi) + 9 * gh * (hi - lo) - (10 * timeSeconds - lo) * 9 * gh

\* Math.max(1, p.map(moving_time, 0, maxDuration, 0, padding.bottom * 0.5)),
\* as a numerator over maxDuration
ColumnHeight(movingTime, maxDur) == Max(maxDur, movingTime * (PaddingBottom \div 2))

\* canvasHeight - padding.bottom - col.height, as a numerator over maxDuration
ColumnY(height, maxDur, ch) == (ch - PaddingBottom) * maxDur - height

MapPointsY(pts, lo, hi, gh) ==
    [k \in 1..Len(pts) |-> [pts[k] EXCEPT !.y = PointY(pts[k].timeSeconds, lo, hi, gh)]]

MapColumns(cols, maxDur, ch) ==
    [k \in 1..Len(cols) |->
        LET h == ColumnHeight(cols[k].activity.moving_time, maxDur)
        IN  [cols[k] EXCEPT !.height = h, !.y = ColumnY(h, maxDur, ch)]]

\* ------------------------------------------------------ constrainViewOffset
ConstrainViewOffset_noMax(offset, cMinX, cMaxX, cw, gw) == Max(0, offset)

ConstrainViewOffset_noMin(offset, cMinX, cMaxX, cw, gw) ==
    LET maxOffsetX == Max(0, cMaxX - Px(cw - PaddingRight))
    IN  Max(0, Min(offset, maxOffsetX))

\* the offset constrainViewOffset leaves in viewOffsetX, from the offset and
\* the content bounds and layout it reads
ConstrainViewOffset(offset, cMinX, cMaxX, cw, gw) ==
    LET maxOffsetX == Max(0, cMaxX - Px(cw - PaddingRight))
        minOffsetX == Max(0, cMinX - Px(PaddingLeft))
        visibleContentWidth == cMaxX - cMinX
        targetOffsetX ==
            IF visibleContentWidth < Px(gw)
            THEN cMinX - Px(PaddingLeft) - (Px(gw) - visibleContentWidth) \div 2
            ELSE Max(minOffsetX, Min(offset, maxOffsetX))
    IN  Max(0, targetOffsetX)

\* processData as a function of what it reads: the fields it leaves behind.
\* prev holds the fields of the previous pass that it reads or overwrites:
\* constrainViewOffset runs before contentMinX/contentMaxX are recomputed,
\* so it reads the bounds of the previous pass.
\* the points and columns pushed for the start, the goal and the activities
PushedGeometry(total, prev) ==
    ProcessActivities(1, total, ResetPoints(prev.points) \o StartGoalPoints(total),
                      ResetColumns(prev.workoutColumns))

\* the sorted points with their y, the columns with their height and y, and
\* the scaling they were mapped with
ScaledGeometry(pushed, ch, gh) ==
    The({ [points |-> MapPointsY(sorted, scale.yMin, scale.yMax, gh),
           workoutColumns |-> MapColumns(pushed.workoutColumns, maxDur, ch),
           yMin |-> scale.yMin, yMax |-> scale.yMax, maxDuration |-> maxDur] :
          sorted \in {SortByDate(pushed.points)},
          scale \in {YScale(SortByDate(pushed.points))},
          maxDur \in {MaxDuration(pushed.workoutColumns)} })

ProcessData(mode, cw, ch, gw, gh, offset, prev) ==
    The({ [points |-> scaled.points,
           workoutColumns |-> scaled.workoutColumns,
           weekMarkers |-> weeks,
           dayMarkers |-> DayMarkers(mode, weeks, total),
           yMin |-> scaled.yMin, yMax |-> scaled.yMax, maxDuration |-> scaled.maxDuration,
           totalGraphContentWidth |-> total,
           viewOffsetX |-> ConstrainViewOffset(offset, prev.contentMinX, prev.contentMaxX,
                                               cw, gw),
           contentMinX |-> IF Len(scaled.points) > 0 THEN SeqMin(OriginalXsOf(scaled.points))
                           ELSE Px(PaddingLeft),
           contentMaxX |-> IF Len(scaled.points) > 0 THEN SeqMax(OriginalXsOf(scaled.points))
                           ELSE Px(cw - PaddingRight)] :
          total \in {TotalGraphContentWidth(mode, gw)},
          weeks \in {WeekMarkers(TotalGraphContentWidth(mode, gw))},
          scaled \in {The({ ScaledGeometry(pushed, ch, gh) :
                            pushed \in {PushedGeometry(TotalGraphContentWidth(mode, gw),
                                                       prev)} })} })

\* the fields of the previous pass that processData reads
PrevPass ==
    [points |-> points, workoutColumns |-> workoutColumns,
     contentMinX |-> contentMinX, contentMaxX |-> contentMaxX]

\* the field initialisers, read by the pass the constructor runs
FieldDefaults ==
    [points |-> <<>>, workoutColumns |-> <<>>, contentMinX |-> 0, contentMaxX |-> 0]

SetGeometry(pd) ==
    /\ points' = pd.points
    /\ workoutColumns' = pd.workoutColumns
    /\ weekMarkers' = pd.weekMarkers
    /\ dayMarkers' = pd.dayMarkers
    /\ yMin' = pd.yMin
    /\ yMax' = pd.yMax
    /\ maxDuration' = pd.maxDuration
    /\ contentMinX' = pd.contentMinX
    /\ contentMaxX' = pd.contentMaxX
    /\ totalGraphContentWidth' = pd.totalGraphContentWidth

\* ------------------------------------------ updateDimensionsAndCanvas
CanvasWidthOf(clientWidth) == Max(MinCanvas, clientWidth)
CanvasHeightOf(clientHeight) == Max(MinCanvas, clientHeight)
GraphWidthOf(cw) == Max(1, cw - PaddingLeft - PaddingRight)
GraphHeightOf(ch) == Max(1, ch - PaddingTop - PaddingBottom)

\* the slider position a resize restores: padding.left + sliderRatio *
\* graphWidth, constrained to the canvas between the paddings (the quotient
\* is rounded down to a multiple of 1/PxDen pixel)
RestoredSliderX(oldSliderX, oldGraphWidth, cw, gw) ==
    LET scaled == IF oldGraphWidth > 0
                  THEN ((oldSliderX - Px(PaddingLeft)) * gw) \div oldGraphWidth
                  ELSE 0
    IN  Constrain(Px(PaddingLeft) + scaled, Px(PaddingLeft), Px(cw - PaddingRight))

\* windowResized(): updateDimensionsAndCanvas(true) with the parent
\* container now clientWidth x clientHeight
WindowResized(clientWidth, clientHeight) ==
    LET cw == CanvasWidthOf(clientWidth)
        ch == CanvasHeightOf(clientHeight)
        gw == GraphWidthOf(cw)
        gh == GraphHeightOf(ch)
    IN  \E pd \in {ProcessData(viewMode, cw, ch, gw, gh, viewOffsetX, PrevPass)} :
        /\ canvasWidth' = cw
        /\ canvasHeight' = ch
        /\ graphWidth' = gw
        /\ graphHeight' = gh
        /\ sliderTrackY' = ch - PaddingBottom
        /\ SetGeometry(pd)
        /\ sliderX' = RestoredSliderX(sliderX, graphWidth, cw, gw)
        /\ viewOffsetX' = ConstrainViewOffset(pd.viewOffsetX, pd.contentMinX,
                                              pd.contentMaxX, cw, gw)
        /\ UNCHANGED <<utilVars, inputVars, dragVars, wiggleVars, hoverVars, touches,
                       viewMode, millis, looping>>

\* ---------------------------------------------------------- setViewMode
OtherMode(mode) == IF mode = "full" THEN "3weeks" ELSE "full"

\* handleViewToggleChange: the checkbox flipped, so setViewMode gets the
\* mode that is not the current one; it sets viewOffsetX to 0 ("Reset scroll
\* on mode change") before processData runs
HandleViewToggleChange ==
    LET mode == OtherMode(viewMode)
    IN  \E pd \in {ProcessData(mode, canvasWidth, canvasHeight, graphWidth, graphHeight,
                              0, PrevPass)} :
        /\ viewMode' = mode
        /\ SetGeometry(pd)
        /\ sliderX' = Px(PaddingLeft)
        /\ viewOffsetX' = ConstrainViewOffset(pd.viewOffsetX, pd.contentMinX,
                                              pd.contentMaxX, canvasWidth, graphWidth)
        /\ UNCHANGED <<utilVars, inputVars, layoutVars, dragVars, wiggleVars, hoverVars,
                       touches, millis, looping>>

\* ------------------------------------------------------------ hit tests
\* the knob's hit-box, widened by pad pixels on every side (pad is 0 for the
\* mouse and touchPadding for a touch)
InKnobHitBox(x, y, pad) ==
    LET sliderKnobY == sliderTrackY - KnobHeight \div 2
    IN  /\ x >= sliderX - Px(KnobWidth \div 2) - Px(pad)
        /\ x <= sliderX + Px(KnobWidth \div 2) + Px(pad)
        /\ y >= sliderKnobY - pad
        /\ y <= sliderKnobY + KnobHeight + pad

\* "within the visual graph area (left padding to canvas edge minus left
\* padding)"
InPanArea(x, y) ==
    /\ y > PaddingTop
    /\ y < canvasHeight - PaddingBottom
    /\ x > Px(PaddingLeft)
    /\ x < Px(canvasWidth - PaddingLeft)

\* the slider position a pointer at x drags the probe to
DraggedSliderX_unclamped(x) == x

DraggedSliderX_noPadding(x) ==
    LET visibleContentStartX == contentMinX - viewOffsetX
        visibleContentEndX == Max(visibleContentStartX, contentMaxX - viewOffsetX)
        visualSliderMaxX == Px(canvasWidth - PaddingLeft)
        actualSliderMaxX == Min(visualSliderMaxX, visibleContentEndX)
    IN  Constrain(x, visibleContentStartX, actualSliderMaxX)

DraggedSliderX(x) ==
    LET visibleContentStartX == Max(Px(PaddingLeft), contentMinX - viewOffsetX)
        visibleContentEndX == Max(visibleContentStartX, contentMaxX - viewOffsetX)
        visualSliderMaxX == Px(canvasWidth - PaddingLeft)
        actualSliderMaxX == Min(visualSliderMaxX, visibleContentEndX)
    IN  Constrain(x, visibleContentStartX, actualSliderMaxX)

\* the view offset a pointer at x drags the graph to
DraggedOffsetX_incremental(x) ==
    ConstrainViewOffset(viewOffsetX - (x - dragStartX), contentMinX, contentMaxX,
                        canvasWidth, graphWidth)

DraggedOffsetX(x) ==
    LET dx == x - dragStartX
        newOffsetX == dragStartOffsetX - dx
    IN  ConstrainViewOffset(newOffsetX, contentMinX, contentMaxX, canvasWidth, graphWidth)

\* ----------------------------------------------------------- drag entry
\* what a pointer-down on the knob assigns
StartProbeDrag_keepGraph ==
    /\ isDraggingSlider' = TRUE
    /\ UNCHANGED <<isDraggingGraph, dragStartX, dragStartOffsetX>>

StartProbeDrag ==
    /\ isDraggingSlider' = TRUE
    /\ isDraggingGraph' = FALSE
    /\ UNCHANGED <<dragStartX, dragStartOffsetX>>

\* what a pointer-down at x in the pan area assigns
StartPanDrag(x) ==
    /\ isDraggingGraph' = TRUE
    /\ isDraggingSlider' = FALSE
    /\ dragStartX' = x
    /\ dragStartOffsetX' = viewOffsetX

\* ------------------------------------------------------- mouse handlers
\* x, y are p.mouseX, p.mouseY, which p5 sets to the event's position before
\* it calls the handler
HandleMousePressed(x, y) ==
    /\ IF InKnobHitBox(x, y, 0)
       THEN StartProbeDrag
       ELSE IF totalGraphContentWidth > Px(graphWidth) /\ InPanArea(x, y)
       THEN StartPanDrag(x)
       ELSE UNCHANGED dragVars
    /\ UNCHANGED <<utilVars, inputVars, layoutVars, geometryVars, wiggleVars, hoverVars, touches,
                   sliderX, viewMode, viewOffsetX, millis, looping>>

HandleMouseDragged(x, y) ==
    /\ IF isDraggingSlider
       THEN /\ sliderX' = DraggedSliderX(x)
            /\ UNCHANGED viewOffsetX
       ELSE IF isDraggingGraph
       THEN /\ viewOffsetX' = DraggedOffsetX(x)
            /\ UNCHANGED sliderX
       ELSE UNCHANGED <<sliderX, viewOffsetX>>
    /\ UNCHANGED <<utilVars, inputVars, layoutVars, geometryVars, dragVars, wiggleVars, hoverVars,
                   touches, viewMode, millis, looping>>

\* the drag flags and wiggle timer a release leaves
ReleaseDrag_noTimer ==
    /\ isDraggingSlider' = FALSE
    /\ isDraggingGraph' = FALSE
    /\ UNCHANGED lastWiggleTime

ReleaseDrag ==
    /\ isDraggingSlider' = FALSE
    /\ isDraggingGraph' = FALSE
    /\ lastWiggleTime' = IF isDraggingSlider \/ isDraggingGraph THEN millis
                         ELSE lastWiggleTime

HandleMouseReleased ==
    /\ ReleaseDrag
    /\ UNCHANGED <<utilVars, inputVars, layoutVars, geometryVars, dragStartX, dragStartOffsetX,
                   isWiggling, wiggleStartTime, hoverVars, touches, sliderX, viewMode,
                   viewOffsetX, millis, looping>>

\* ------------------------------------------------------- touch handlers
\* A touch is kept as the logical canvas position getTouchPosition maps it
\* to.  event.touches lists the touches on the canvas oldest first; the
\* handlers read event.touches[0].
RemoveAt(s, i) == SubSeq(s, 1, i - 1) \o SubSeq(s, i + 1, Len(s))

\* the touch whose position handleTouchStart and handleTouchMove read
ReadTouch(list) == list[1]

\* handleTouchStart for a new touch at pos
HandleTouchStart(pos) ==
    LET list == Append(touches, pos)
        touchPos == ReadTouch(list)
    IN  /\ Len(touches) < MaxTouches
        /\ touches' = list
        /\ IF InKnobHitBox(touchPos.x, touchPos.y, TouchPadding)
           THEN StartProbeDrag
           ELSE IF /\ ~isDraggingSlider
                   /\ totalGraphContentWidth > Px(graphWidth)
                   /\ InPanArea(touchPos.x, touchPos.y)
           THEN StartPanDrag(touchPos.x)
           ELSE UNCHANGED dragVars
        /\ UNCHANGED <<utilVars, inputVars, layoutVars, geometryVars, wiggleVars, hoverVars,
                       sliderX, viewMode, viewOffsetX, millis, looping>>

\* handleTouchMove when touch i moves to pos
HandleTouchMove(i, pos) ==
    LET list == [touches EXCEPT ![i] = pos]
        touchPos == ReadTouch(list)
    IN  /\ i \in 1..Len(touches)
        /\ touches' = list
        /\ IF ~isDraggingSlider /\ ~isDraggingGraph
           THEN UNCHANGED <<sliderX, viewOffsetX>>
           ELSE IF isDraggingSlider
           THEN /\ sliderX' = DraggedSliderX(touchPos.x)
                /\ UNCHANGED viewOffsetX
           ELSE /\ viewOffsetX' = DraggedOffsetX(touchPos.x)
                /\ UNCHANGED sliderX
        /\ UNCHANGED <<utilVars, inputVars, layoutVars, geometryVars, dragVars, wiggleVars,
                       hoverVars, viewMode, millis, looping>>

\* handleTouchEnd, bound to touchend and to touchcancel, when touch i leaves
HandleTouchEnd(i) ==
    LET list == RemoveAt(touches, i)
    IN  /\ i \in 1..Len(touches)
        /\ touches' = list
        /\ IF Len(list) = 0
           THEN ReleaseDrag
           ELSE UNCHANGED <<isDraggingSlider, isDraggingGraph, lastWiggleTime>>
        /\ UNCHANGED <<utilVars, inputVars, layoutVars, geometryVars, dragStartX, dragStartOffsetX,
                       isWiggling, wiggleStartTime, hoverVars, sliderX,
                       viewMode, viewOffsetX, millis, looping>>

\* ----------------------------------------------------------------- draw
Contains(items, x) == \E k \in 1..Len(items) : items[k] = x

IsPoint(item) == "type" \in DOMAIN item
IsColumn(item) == "height" \in DOMAIN item
IsWeekMarker(item) == "weekNumber" \in DOMAIN item

\* drawX < visibleLeft - buffer || drawX + width > ... : the clipping test of
\* an entity drawn from drawX to drawX + width
Clipped(drawX, width) ==
    \/ drawX + width < Px(PaddingLeft - DrawBuffer)
    \/ drawX > Px(canvasWidth - PaddingRight + DrawBuffer)

\* this.hoveredItems = [] unless the graph is being dragged
ResetHover_always(hovered) == <<>>
ResetHover_never(hovered) == hovered
ResetHover(hovered) == IF ~isDraggingGraph THEN <<>> ELSE hovered

\* the week markers drawXAxis pushes, hovered being hoveredItems on entry
HoveredWeekMarkers(hovered) ==
    LET sliderContentX == sliderX + viewOffsetX
    IN  SelectSeq(weekMarkers, LAMBDA marker :
            /\ ~Clipped(marker.originalX - viewOffsetX, 0)
            /\ ~isDraggingGraph
            /\ Abs(sliderContentX - marker.originalX) < Px(MarkerHoverRadius)
            /\ ~Contains(hovered, marker))

\* the columns drawWorkoutColumns pushes while it goes through sorted
HoveredColumnsOf(sorted, hovered) ==
    LET sliderContentX == sliderX + viewOffsetX
    IN  SelectSeq(sorted, LAMBDA col :
            /\ ~Clipped(col.originalX - viewOffsetX, col.width)
            /\ ~isDraggingGraph
            /\ sliderContentX >= col.originalX
            /\ sliderContentX <= col.originalX + col.width
            /\ ~Contains(hovered, col))

\* the columns drawWorkoutColumns pushes, in date order
HoveredColumns(hovered) == HoveredColumnsOf(SortByDate(workoutColumns), hovered)

\* col.date.toISOString().split('T')[0]: the UTC calendar day of a date
DayKey(date) == (date - timezoneOffset) \div TicksPerDay

\* dailyAccumulatedHeight.get(dayKey) || 0: the heights of the rectangles
\* drawn for the day so far
RECURSIVE AccumulatedHeight(_, _, _)
AccumulatedHeight(drawn, k, dayKey) ==
    IF k > Len(drawn) THEN 0
    ELSE (IF drawn[k].dayKey = dayKey THEN drawn[k].height ELSE 0)
         + AccumulatedHeight(drawn, k + 1, dayKey)

\* Math.round((nextCol.date.getTime() - col.date.getTime()) / (24 * 60 * 60 *
\* 1000)): halves round up
DayDifference(col, nextCol) ==
    (2 * (nextCol.date - col.date) + TicksPerDay) \div (2 * TicksPerDay)

\* drawWidth of sorted[k]: col.width, or the distance to the next column of
\* sorted when dayDifference === 1
DrawWidth(sorted, k) ==
    IF k < Len(sorted) /\ DayDifference(sorted[k], sorted[k + 1]) = 1
    THEN sorted[k + 1].originalX - sorted[k].originalX
    ELSE sorted[k].width

\* the forEach loop of drawWorkoutColumns over sorted: the rectangles it
\* draws, each from drawY = col.y - yOffset down to drawY + col.height (y and
\* height are numerators over maxDuration); a clipped column draws nothing
RECURSIVE StackColumns(_, _, _)
StackColumns(sorted, k, drawn) ==
    IF k > Len(sorted) THEN drawn
    ELSE LET col == sorted[k]
             dayKey == DayKey(col.date)
             yOffset == AccumulatedHeight(drawn, 1, dayKey)
         IN  IF Clipped(col.originalX - viewOffsetX, col.width)
             THEN StackColumns(sorted, k + 1, drawn)
             ELSE StackColumns(sorted, k + 1,
                      Append(drawn, [activity |-> col.activity.id, dayKey |-> dayKey,
                                     y |-> col.y - yOffset, height |-> col.height,
                                     width |-> DrawWidth(sorted, k)]))

\* p.rect(drawX, drawY, drawWidth, col.height, 1) for the columns of sorted
Bars(sorted) ==
    The({ [k \in 1..Len(drawn) |-> [activity |-> drawn[k].activity, y |-> drawn[k].y,
                                     height |-> drawn[k].height,
                                     width |-> drawn[k].width]] :
          drawn \in {StackColumns(sorted, 1, <<>>)} })

\* getStartOfWeek: 00:00 of the Monday on or before d
GetStartOfWeek(d) ==
    LET day == GetDay(d)
    IN  StartOfDay(AddDays(d, IF day = 0 THEN -6 ELSE 1 - day))

IsDateInPreviousWeek_never(date1, date2) == FALSE

IsDateInPreviousWeek(date1, date2) ==
    GetStartOfWeek(date2) - GetStartOfWeek(date1) = 7 * TicksPerDay

AreDatesInSameWeek(date1, date2) == GetStartOfWeek(date1) = GetStartOfWeek(date2)

\* the basic clipping of drawConnectingLines: both ends beyond the same
\* edge of the visible area and its buffer
LineClipped(currentDrawX, nextDrawX) ==
    \/ /\ currentDrawX < Px(PaddingLeft - DrawBuffer)
       /\ nextDrawX < Px(PaddingLeft - DrawBuffer)
    \/ /\ currentDrawX > Px(canvasWidth - PaddingRight + DrawBuffer)
       /\ nextDrawX > Px(canvasWidth - PaddingRight + DrawBuffer)

\* how the segment from points[i] to points[i + 1] is drawn: shouldDraw and
\* useDashedLine
LineStyle(i) ==
    IF points[i + 1].type = "goal"
    THEN IF \/ AreDatesInSameWeek(points[i].date, points[i + 1].date)
            \/ IsDateInPreviousWeek(points[i].date, points[i + 1].date)
         THEN "dashed"
         ELSE "none"
    ELSE "solid"

\* the p.line calls of drawConnectingLines, in order
ConnectingLines ==
    SelectSeq([i \in 1..(Len(points) - 1) |-> [from |-> i, to |-> i + 1, style |-> LineStyle(i)]],
              LAMBDA seg : /\ ~LineClipped(points[seg.from].originalX - viewOffsetX,
                                          points[seg.to].originalX - viewOffsetX)
                           /\ seg.style /= "none")

\* a column made from a record without start_date_local: its date is an
\* Invalid Date, the clipping test is false for its NaN currentX, and
\* toISOString() throws a RangeError
HasInvalidDate(cols) == \E k \in 1..Len(cols) : IsNaN(cols[k].date)

\* [...workoutColumns].sort(by date) when a date is invalid: the comparator
\* returns NaN for that column, it is no consistent ordering, and the order
\* sort() leaves is up to the engine
Arrangements(cols) ==
    LET n == Len(cols)
    IN  { [k \in 1..n |-> cols[f[k]]] :
          f \in { g \in [1..n -> 1..n] : \A i, j \in 1..n : i /= j => g[i] /= g[j] } }

\* the columns of sorted that forEach handles before the first one whose
\* date is invalid
BeforeInvalid(sorted) ==
    LET first == CHOOSE k \in 1..Len(sorted) :
                     /\ IsNaN(sorted[k].date)
                     /\ \A j \in 1..(k - 1) : ~IsNaN(sorted[j].date)
    IN  SubSeq(sorted, 1, first - 1)

\* what a frame paints after p.background(255), in the order of draw()
FrameLayers ==
    <<"drawXAxis", "drawWorkoutColumns", "drawConnectingLines", "drawPoints",
      "drawVerticalIndicator", "drawSliderControl", "drawLegend">>

\* the points drawPoints pushes
HoveredPoints(hovered) ==
    LET sliderContentX == sliderX + viewOffsetX
        hoverRadius == Px(PointSize) \div 2
    IN  SelectSeq(points, LAMBDA point :
            /\ ~Clipped(point.originalX - viewOffsetX, 0)
            /\ ~isDraggingGraph
            /\ Abs(sliderContentX - point.originalX) < hoverRadius
            /\ ~Contains(hovered, point))

\* hoveredItems when the frame's draw helpers have run
FrameHover(hovered) ==
    LET reset == ResetHover(hovered)
        afterAxis == reset \o HoveredWeekMarkers(reset)
        afterColumns == afterAxis \o HoveredColumns(afterAxis)
    IN  afterColumns \o HoveredPoints(afterColumns)

\* 'activity' in item: a trial point or a workout column
HasActivity(item) == IsColumn(item) \/ (IsPoint(item) /\ item.type = "trial")

ItemsToRender_all(hovered) == hovered

\* drawInfoBox's filter: every week marker and point, and the columns whose
\* activity has no hovered trial point
ItemsToRender(hovered) ==
    SelectSeq(hovered, LAMBDA item :
        \/ IsWeekMarker(item)
        \/ IsPoint(item)
        \/ /\ IsColumn(item)
           /\ ~\E k \in 1..Len(hovered) :
                  /\ IsPoint(hovered[k])
                  /\ hovered[k].type = "trial"
                  /\ hovered[k].activity.id = item.activity.id)

\* drawInfoBox's sort comparator
InfoCompare(a, b) ==
    IF ~HasActivity(a) /\ HasActivity(b) THEN -1
    ELSE IF HasActivity(a) /\ HasActivity(b)
    THEN a.activity.start_date_local - b.activity.start_date_local
    ELSE 0

\* The comparator is not a consistent ordering (it puts an item without an
\* activity before one with an activity, yet ranks them equal the other way
\* round), so the order sort() leaves is up to the engine: any arrangement
\* of the items in which no item is followed by one the comparator puts
\* before it.
SortedForInfo(items) ==
    LET n == Len(items)
        perms == { f \in [1..n -> 1..n] : \A i, j \in 1..n : i /= j => f[i] /= f[j] }
    IN  { [k \in 1..n |-> items[f[k]]] : f \in
            { g \in perms : \A i, j \in 1..n :
                i < j => InfoCompare(items[g[i]], items[g[j]]) <= 0 } }

\* what drawInfoBox leaves in #info-box
InfoBoxWritten(box, hovered) ==
    IF isDraggingGraph THEN {box}
    ELSE IF Len(hovered) > 0
    THEN { [html |-> "items", items |-> order] : order \in SortedForInfo(ItemsToRender(hovered)) }
    ELSE { [html |-> "hint", items |-> <<>>] }

\* drawSliderControl's "Start wiggle?" test
WiggleStarts ==
    /\ ~isWiggling
    /\ ~isDraggingSlider
    /\ millis - lastWiggleTime > WiggleInterval

\* the sign of Math.sin(2 * Math.PI * num / den), for num >= 0 and den > 0
SineSign(num, den) ==
    LET phase == (2 * num) % (2 * den)
    IN  IF phase = 0 \/ phase = den THEN 0 ELSE IF phase < den THEN 1 ELSE -1

\* the sign of the wiggleOffsetX drawSliderControl adds to sliderX to place
\* the knob: wiggleAmplitude * sin(wiggleProgress * 2 PI * wiggleCycles)
\* while a wiggle runs, 0 otherwise
WiggleOffsetX ==
    LET currentTime == millis
        wiggling == isWiggling \/ WiggleStarts
        startTime == IF WiggleStarts THEN currentTime ELSE wiggleStartTime
        wiggleElapsedTime == currentTime - startTime
    IN  IF wiggling /\ wiggleElapsedTime < WiggleDuration
        THEN SineSign(wiggleElapsedTime * WiggleCycles, WiggleDuration)
        ELSE 0

\* drawSliderControl's wiggle bookkeeping
WiggleStep ==
    LET currentTime == millis
        starts == WiggleStarts
        wiggling == isWiggling \/ starts
        startTime == IF starts THEN currentTime ELSE wiggleStartTime
        ends == wiggling /\ ~(currentTime - startTime < WiggleDuration)
    IN  /\ isWiggling' = (wiggling /\ ~ends)
        /\ wiggleStartTime' = startTime
        /\ lastWiggleTime' = IF starts \/ ends THEN currentTime ELSE lastWiggleTime

\* one frame: p5 calls p.draw while the loop runs, and p.draw calls draw().
\* draw() either runs to its end, or drawWorkoutColumns throws at the first
\* column with an invalid date: the helpers after it do not run, and
\* p.draw catches the error and calls p.noLoop()
Draw ==
    /\ looping
    /\ IF ~HasInvalidDate(workoutColumns)
       THEN /\ hoveredItems' = FrameHover(hoveredItems)
            /\ infoBox' \in InfoBoxWritten(infoBox, hoveredItems')
            /\ WiggleStep
            /\ canvas' = [layers |-> FrameLayers, bars |-> Bars(SortByDate(workoutColumns)),
                          lines |-> ConnectingLines, wiggleOffsetX |-> WiggleOffsetX]
            /\ UNCHANGED looping
       ELSE /\ \E sorted \in Arrangements(workoutColumns) :
                   LET before == BeforeInvalid(sorted)
                       reset == ResetHover(hoveredItems)
                       afterAxis == reset \o HoveredWeekMarkers(reset)
                   IN  /\ hoveredItems' = afterAxis \o HoveredColumnsOf(before, afterAxis)
                       /\ canvas' = [layers |-> <<"drawXAxis">>, bars |-> Bars(before),
                                     lines |-> <<>>, wiggleOffsetX |-> 0]
            /\ looping' = FALSE
            /\ UNCHANGED <<infoBox, wiggleVars>>
    /\ UNCHANGED <<utilVars, inputVars, layoutVars, geometryVars, dragVars, touches, sliderX,
                   viewMode, viewOffsetX, millis>>

\* ------------------------------------------------------------ the clock
TickMillis == 500

\* p.millis() advances between two callbacks
Tick ==
    /\ millis + TickMillis <= MaxTicks * TickMillis
    /\ millis' = millis + TickMillis
    /\ UNCHANGED <<utilVars, inputVars, layoutVars, geometryVars, dragVars, wiggleVars, hoverVars,
                   touches, sliderX, viewMode, viewOffsetX, looping>>

\* instants of the p.millis() clock: inside the wiggle that runs from
\* construction, after its end, and more than wiggleInterval later
ClockSamples == { 100, 600, 8700 }

\* p.millis() advances to a later instant between two callbacks
Elapse ==
    /\ \E t \in ClockSamples : t > millis /\ millis' = t
    /\ UNCHANGED <<utilVars, inputVars, layoutVars, geometryVars, dragVars, wiggleVars, hoverVars,
                   touches, sliderX, viewMode, viewOffsetX, looping>>

\* --------------------------------------------------------------- inputs
\* the tick of time-of-day tod on calendar day n
Day(n, tod) == n * TicksPerDay + tod

\* "01:25:00" and "01:10:00"
StartRaceTime == <<"0", "1", ":", "2", "5", ":", "0", "0">>
GoalRaceTime == <<"0", "1", ":", "1", "0", ":", "0", "0">>

\* pairs of a current and a target race time: "01:25:00" and "01:10:00";
\* "00:50" and "00:20", half a minute apart
RaceTimes ==
    { <<StartRaceTime, GoalRaceTime>>,
      <<(<<"0", "0", ":", "5", "0">>), (<<"0", "0", ":", "2", "0">>)>> }

\* start and goal dates: four weeks apart from midnight to midnight and from
\* the evening to midnight, two weeks apart from midnight to noon
TimeRanges ==
    { <<Day(0, 0), Day(28, 0)>>, <<Day(0, 3), Day(28, 0)>>, <<Day(0, 0), Day(14, 2)>> }

\* an ordinary workout and a trial inside the range
SampleActivities ==
    << [id |-> 1, start_date_local |-> Day(10, 1), moving_time |-> 3000,
        workout_type |-> 0],
       [id |-> 2, start_date_local |-> Day(20, 2), moving_time |-> 4500,
        workout_type |-> TrialWorkoutType] >>

\* well-formed activities inside the four-week ranges: an ordinary workout,
\* and three trials, two of them with the same start_date_local; one trial
\* is slower than the current race time and one faster than the target
ActivityPool ==
    { [id |-> 1, start_date_local |-> Day(10, 1), moving_time |-> 3000, workout_type |-> 0],
      [id |-> 2, start_date_local |-> Day(20, 2), moving_time |-> 4500,
       workout_type |-> TrialWorkoutType],
      [id |-> 3, start_date_local |-> Day(5, 0), moving_time |-> 5400,
       workout_type |-> TrialWorkoutType],
      [id |-> 4, start_date_local |-> Day(20, 2), moving_time |-> 3726,
       workout_type |-> TrialWorkoutType] }

\* the activities array: up to MaxActivities distinct activities in any order
ActivityLists ==
    UNION { { acts \in [1..n -> ActivityPool] :
                \A i, j \in 1..n : i /= j => acts[i] /= acts[j] } : n \in 0..MaxActivities }

\* sizes of the parent container, clientWidth x clientHeight
ClientSizes == { <<120, 300>>, <<220, 300>> }

\* pointer positions in whole canvas pixels: on the knob at its initial place
\* and inside the plot area; on the left padding below the plot area, inside
\* only the touch-padded knob box at its initial place; inside the plot area
PointerPositions == { <<12, 175>>, <<5, 200>>, <<90, 100>> }

TouchAt(pos) == [x |-> Px(pos[1]), y |-> pos[2]]

\* ---------------------------------------------------------- construction
\* the fields the constructor leaves in a renderer made for start, goal and
\* acts in a container of the given size: the field initialisers, then
\* updateDimensionsAndCanvas(false), then lastWiggleTime = p.millis()
Constructor(start, goal, acts, size) ==
    /\ startData = start
    /\ goalData = goal
    /\ activities = acts
    /\ viewMode = "full"
    /\ canvasWidth = CanvasWidthOf(size[1])
    /\ canvasHeight = CanvasHeightOf(size[2])
    /\ graphWidth = GraphWidthOf(canvasWidth)
    /\ graphHeight = GraphHeightOf(canvasHeight)
    /\ sliderTrackY = canvasHeight - PaddingBottom
    /\ \E pd \in {ProcessData("full", canvasWidth, canvasHeight, graphWidth, graphHeight,
                              0, FieldDefaults)} :
           /\ points = pd.points
           /\ workoutColumns = pd.workoutColumns
           /\ weekMarkers = pd.weekMarkers
           /\ dayMarkers = pd.dayMarkers
           /\ yMin = pd.yMin
           /\ yMax = pd.yMax
           /\ maxDuration = pd.maxDuration
           /\ contentMinX = pd.contentMinX
           /\ contentMaxX = pd.contentMaxX
           /\ totalGraphContentWidth = pd.totalGraphContentWidth
           /\ viewOffsetX = ConstrainViewOffset(pd.viewOffsetX, pd.contentMinX,
                                                pd.contentMaxX, canvasWidth, graphWidth)
    /\ sliderX = Px(PaddingLeft)
    /\ hoveredItems = <<>>
    /\ infoBox = [html |-> "initial", items |-> <<>>]
    /\ canvas = [layers |-> <<>>, bars |-> <<>>, lines |-> <<>>, wiggleOffsetX |-> 0]
    /\ isDraggingSlider = FALSE
    /\ isDraggingGraph = FALSE
    /\ dragStartX = 0
    /\ dragStartOffsetX = 0
    /\ millis = 0
    /\ lastWiggleTime = millis
    /\ isWiggling = TRUE
    /\ wiggleStartTime = 0
    /\ touches = <<>>
    /\ looping = TRUE

\* the host's local time is UTC
UtcHost == timezoneOffset = 0

\* no conversion of utils.ts has been called on its own
NoCall ==
    /\ convString = <<>>
    /\ convSeconds = 0
    /\ convWarned = FALSE

\* the state after construction for a time range and the race times
\* "01:25:00" and "01:10:00"
Constructed(range, acts, size) ==
    /\ Constructor([currentRaceTime |-> StartRaceTime, date |-> range[1]],
                   [targetRaceTime |-> GoalRaceTime, dateOfRace |-> range[2]], acts, size)
    /\ UtcHost
    /\ NoCall

\* ------------------------------------------------- calls of utils.ts
\* parseTimeToSeconds(convString)
CallParseTimeToSeconds ==
    /\ convSeconds' = ParseTimeToSeconds(convString)
    /\ convWarned' = ParseTimeWarns(convString)
    /\ UNCHANGED <<convString, rendererVars>>

\* formatSecondsToTime(convSeconds)
CallFormatSecondsToTime ==
    /\ convString' = FormatSecondsToTime(convSeconds)
    /\ convWarned' = FALSE
    /\ UNCHANGED <<convSeconds, rendererVars>>

\* ------------------------------------------------------ the event actions
MousePressed == \E pos \in PointerPositions : HandleMousePressed(Px(pos[1]), pos[2])
MouseDragged == \E pos \in PointerPositions : HandleMouseDragged(Px(pos[1]), pos[2])
MouseReleased == HandleMouseReleased
TouchStart == \E pos \in PointerPositions : HandleTouchStart(TouchAt(pos))
TouchMove ==
    \E i \in 1..MaxTouches, pos \in PointerPositions : HandleTouchMove(i, TouchAt(pos))
TouchEnd == \E i \in 1..MaxTouches : HandleTouchEnd(i)
TouchCancel == \E i \in 1..MaxTouches : HandleTouchEnd(i)
ViewToggle == HandleViewToggleChange
Resize == \E size \in ClientSizes : WindowResized(size[1], size[2])

\* --------------------------------------------------- the view machine
\* Panning, probe dragging, view toggles and resizes over every time range.
\* One finger at a time: which touch a handler reads does not matter to the
\* view state, and the clock does not either.
Init == \E range \in TimeRanges : Constructed(range, SampleActivities, <<120, 300>>)

FirstTouchStart == touches = <<>> /\ TouchStart

Next ==
    \/ MousePressed
    \/ MouseDragged
    \/ MouseReleased
    \/ FirstTouchStart
    \/ TouchMove
    \/ TouchEnd
    \/ TouchCancel
    \/ ViewToggle
    \/ Resize

Spec == Init /\ [][Next]_vars

\* ------------------------------------------------- the pointer machine
\* Mouse and multi-touch events in every order, with the clock running, on
\* one time range and one canvas size.
InitPointer == Constructed(<<Day(0, 0), Day(28, 0)>>, SampleActivities, <<120, 300>>)

NextPointer ==
    \/ MousePressed
    \/ MouseDragged
    \/ MouseReleased
    \/ TouchStart
    \/ TouchMove
    \/ TouchEnd
    \/ TouchCancel
    \/ ViewToggle
    \/ Tick

SpecPointer == InitPointer /\ [][NextPointer]_vars

\* --------------------------------------------------- the frame machine
\* Frames between mouse events, view toggles and clock ticks.
InitFrame == Constructed(<<Day(0, 0), Day(28, 0)>>, SampleActivities, <<120, 300>>)

NextFrame ==
    \/ MousePressed
    \/ MouseDragged
    \/ MouseReleased
    \/ ViewToggle
    \/ Tick
    \/ Draw

SpecFrame == InitFrame /\ [][NextFrame]_vars

\* ---------------------------------------------------- the data machine
\* Processing passes over every time range, activity list and canvas size:
\* the pass of the constructor, then the passes of resizes and view toggles.
InitData ==
    \E times \in RaceTimes, range \in TimeRanges, acts \in ActivityLists,
       size \in ClientSizes :
        /\ Constructor([currentRaceTime |-> times[1], date |-> range[1]],
                       [targetRaceTime |-> times[2], dateOfRace |-> range[2]], acts, size)
        /\ UtcHost
        /\ NoCall

NextData ==
    \/ Resize
    \/ ViewToggle

SpecData == InitData /\ [][NextData]_vars

\* -------------------------------------------------- the record machine
\* Processing passes over activity records of every kind: inside the range,
\* on its first and last instant, before and after it, without a duration
\* and without a required field.
\* (A record without start_date_local is an ordinary workout here: a trial
\* without a date would put an Invalid Date among the points that are sorted.)
RecordPool ==
    { [id |-> 1, start_date_local |-> Day(10, 1), moving_time |-> 3000, workout_type |-> 0],
      [id |-> 2, start_date_local |-> Day(12, 2), moving_time |-> 4500,
       workout_type |-> TrialWorkoutType],
      [id |-> 3, start_date_local |-> Day(20, 0), moving_time |-> 3000, workout_type |-> 0],
      [id |-> 4, start_date_local |-> Day(0, 1), moving_time |-> 4000,
       workout_type |-> TrialWorkoutType],
      [id |-> 5, start_date_local |-> Day(14, 2), moving_time |-> 4400,
       workout_type |-> TrialWorkoutType],
      [id |-> 6, start_date_local |-> Day(0, 3), moving_time |-> 2000, workout_type |-> 0],
      [id |-> 7, start_date_local |-> Day(10, 1), moving_time |-> 0,
       workout_type |-> TrialWorkoutType],
      [id |-> 8, start_date_local |-> Day(10, 2), workout_type |-> TrialWorkoutType],
      [id |-> 9, moving_time |-> 3000, workout_type |-> 0] }

\* start and goal dates: from the evening of day 0 to day 28, and from day 0
\* to noon of day 14
RecordRanges == { <<Day(0, 3), Day(28, 0)>>, <<Day(0, 0), Day(14, 2)>> }

RecordLists ==
    UNION { { acts \in [1..n -> RecordPool] :
                \A i, j \in 1..n : i /= j => acts[i] /= acts[j] } : n \in 0..MaxActivities }

InitRecords ==
    \E range \in RecordRanges, acts \in RecordLists : Constructed(range, acts, <<220, 300>>)

NextRecords ==
    \/ Resize
    \/ ViewToggle

SpecRecords == InitRecords /\ [][NextRecords]_vars

\* --------------------------------------------------- the stack machine
\* Frames over two ordinary workouts of one calendar day, on hosts west of,
\* at and east of UTC, between mouse events and view toggles.
HostZones == { -1, 0, 1 }

SameDayPool ==
    { [id |-> 1, start_date_local |-> Day(22, 0), moving_time |-> 3000, workout_type |-> 0],
      [id |-> 2, start_date_local |-> Day(22, 1), moving_time |-> 2000, workout_type |-> 0],
      [id |-> 3, start_date_local |-> Day(22, 3), moving_time |-> 2500, workout_type |-> 0] }

SameDayLists ==
    { acts \in [1..2 -> SameDayPool] : acts[1] /= acts[2] }

InitStack ==
    \E zone \in HostZones, acts \in SameDayLists :
        /\ Constructor([currentRaceTime |-> StartRaceTime, date |-> Day(0, 0)],
                       [targetRaceTime |-> GoalRaceTime, dateOfRace |-> Day(28, 0)],
                       acts, <<120, 300>>)
        /\ timezoneOffset = zone
        /\ NoCall

NextStack ==
    \/ MousePressed
    \/ MouseDragged
    \/ MouseReleased
    \/ ViewToggle
    \/ Draw

SpecStack == InitStack /\ [][NextStack]_vars

\* --------------------------------------------------- the crash machine
\* Frames over activity lists with and without a record that lacks
\* start_date_local, between mouse events and view toggles.
CrashPool ==
    { [id |-> 1, start_date_local |-> Day(22, 1), moving_time |-> 3000, workout_type |-> 0],
      [id |-> 9, moving_time |-> 2000, workout_type |-> 0] }

CrashLists ==
    UNION { { acts \in [1..n -> CrashPool] :
                \A i, j \in 1..n : i /= j => acts[i] /= acts[j] } : n \in 1..2 }

InitCrash ==
    \E acts \in CrashLists : Constructed(<<Day(0, 0), Day(28, 0)>>, acts, <<120, 300>>)

NextCrash ==
    \/ MousePressed
    \/ MouseDragged
    \/ MouseReleased
    \/ ViewToggle
    \/ Draw

SpecCrash == InitCrash /\ [][NextCrash]_vars

\* -------------------------------------------------- the bridge machine
\* Frames over two workouts on the same day, on neighbouring days and days
\* apart, at several times of day, on a host in UTC.
BridgePool ==
    { [id |-> 1, start_date_local |-> Day(22, 0), moving_time |-> 3000, workout_type |-> 0],
      [id |-> 2, start_date_local |-> Day(22, 2), moving_time |-> 2000, workout_type |-> 0],
      [id |-> 3, start_date_local |-> Day(23, 0), moving_time |-> 2500, workout_type |-> 0],
      [id |-> 4, start_date_local |-> Day(23, 3), moving_time |-> 2000, workout_type |-> 0],
      [id |-> 5, start_date_local |-> Day(25, 0), moving_time |-> 1500, workout_type |-> 0] }

BridgeLists ==
    { acts \in [1..2 -> BridgePool] : acts[1] /= acts[2] }

InitBridge ==
    \E acts \in BridgeLists : Constructed(<<Day(0, 0), Day(28, 0)>>, acts, <<120, 300>>)

NextBridge ==
    \/ Resize
    \/ ViewToggle
    \/ Draw

SpecBridge == InitBridge /\ [][NextBridge]_vars

\* --------------------------------------------------- the lines machine
\* Frames over trials in the goal's week, in the week before it, in earlier
\* weeks and at the instant of the goal itself.
LinePool ==
    { [id |-> 1, start_date_local |-> Day(12, 1), moving_time |-> 5000,
       workout_type |-> TrialWorkoutType],
      [id |-> 2, start_date_local |-> Day(20, 3), moving_time |-> 4800,
       workout_type |-> TrialWorkoutType],
      [id |-> 3, start_date_local |-> Day(21, 0), moving_time |-> 4600,
       workout_type |-> TrialWorkoutType],
      [id |-> 4, start_date_local |-> Day(28, 1), moving_time |-> 4400,
       workout_type |-> TrialWorkoutType],
      [id |-> 5, start_date_local |-> Day(30, 2), moving_time |-> 4300,
       workout_type |-> TrialWorkoutType] }

LineLists ==
    { <<>> } \cup { <<a>> : a \in LinePool }
             \cup { acts \in [1..2 -> LinePool] : acts[1] /= acts[2] }

InitLines ==
    \E acts \in LineLists : Constructed(<<Day(0, 0), Day(30, 2)>>, acts, <<120, 300>>)

NextLines ==
    \/ Resize
    \/ ViewToggle
    \/ Draw

SpecLines == InitLines /\ [][NextLines]_vars

\* --------------------------------------------------- the weeks machine
\* Processing passes over start dates on several weekdays and times of day
\* and goal dates before, on and after the first week-start day.
WeekRanges ==
    { <<start, goal>> : start \in { Day(0, 0), Day(0, 3), Day(3, 0), Day(4, 0), Day(4, 2),
                                     Day(5, 0) },
                        goal \in { Day(6, 0), Day(7, 0), Day(14, 2), Day(21, 3), Day(28, 0) } }

InitWeeks ==
    \E range \in WeekRanges, size \in ClientSizes : Constructed(range, <<>>, size)

NextWeeks ==
    \/ Resize
    \/ ViewToggle

SpecWeeks == InitWeeks /\ [][NextWeeks]_vars

\* ------------------------------------------------- the rebuild machine
\* Frames between resizes and view toggles, over every time range, activity
\* list and canvas size of the data machine.  The handlers run to their end
\* before p5 calls p.draw again: JavaScript runs one callback at a time, and
\* p5's own calls (createCanvas, resizeCanvas, cursor) are taken to change
\* nothing the renderer reads.
NextRebuild ==
    \/ Resize
    \/ ViewToggle
    \/ Draw

SpecRebuild == InitData /\ [][NextRebuild]_vars

\* -------------------------------------------------- the wiggle machine
\* Frames between mouse events and view toggles while the clock runs past
\* wiggleInterval.
InitWiggle == Constructed(<<Day(0, 0), Day(28, 0)>>, SampleActivities, <<120, 300>>)

NextWiggle ==
    \/ MousePressed
    \/ MouseDragged
    \/ MouseReleased
    \/ ViewToggle
    \/ Elapse
    \/ Draw

SpecWiggle == InitWiggle /\ [][NextWiggle]_vars

\* --------------------------------------------------- the utils machine
\* Calls of parseTimeToSeconds and formatSecondsToTime on strings and numbers
\* of every shape, each call taking what the one before returned.
MaxFields == 4
MaxSmallSeconds == 130

\* the fields a time string is made of: empty, two digits, three digits, and
\* one that is no numeral
FieldStrings ==
    { <<>>, <<"0", "0">>, <<"2", "5">>, <<"1", "0", "0">>, <<"1", "x">> }

\* fields.join(':')
RECURSIVE Join(_, _)
Join(fields, n) ==
    IF n = 1 THEN fields[1] ELSE Join(fields, n - 1) \o <<":">> \o fields[n]

\* strings of 1 to MaxFields fields, bare or followed by " HM"
TimeStrings ==
    UNION { { Join(fields, n) \o suffix :
                fields \in [1..n -> FieldStrings], suffix \in { <<>>, <<" ", "H", "M">> } } :
            n \in 1..MaxFields }

\* numbers of seconds: the small ones, and ones around whole hours up to
\* hours of three and four digits
SecondsSamples ==
    (0..MaxSmallSeconds)
    \cup { hours * 3600 + rest : hours \in {1, 9, 10, 99, 100, 101, 1000},
                                 rest \in {0, 59, 60, 3599} }
    \cup { NaN }

InitTime ==
    /\ Constructor([currentRaceTime |-> StartRaceTime, date |-> Day(0, 0)],
                   [targetRaceTime |-> GoalRaceTime, dateOfRace |-> Day(28, 0)],
                   SampleActivities, <<120, 300>>)
    /\ UtcHost
    /\ convWarned = FALSE
    /\ \/ convString \in TimeStrings /\ convSeconds = 0
       \/ convString = <<>> /\ convSeconds \in SecondsSamples

NextTime ==
    \/ CallParseTimeToSeconds
    \/ CallFormatSecondsToTime

SpecTime == InitTime /\ [][NextTime]_vars

\* ================================================================ claims
Idle == ~isDraggingSlider /\ ~isDraggingGraph
DraggingProbe == isDraggingSlider /\ ~isDraggingGraph
DraggingViewport == isDraggingGraph /\ ~isDraggingSlider

\* a mouse press/drag/release or a touch start/move/end/cancel
DragEvent ==
    \/ MousePressed
    \/ MouseDragged
    \/ MouseReleased
    \/ TouchStart
    \/ TouchMove
    \/ TouchEnd
    \/ TouchCancel

\* the least and the greatest offset the content bounds allow
MinOffsetX == Max(0, contentMinX - Px(PaddingLeft))
MaxOffsetX == Max(0, contentMaxX - Px(canvasWidth - PaddingRight))

C2_OneDragMode == ~(isDraggingSlider /\ isDraggingGraph)

\* a touch rests where the knob's hit-box overlaps the pan area of a view
\* that can be panned, and the probe drag alone is active
C2_ProbeWinsOverlap ==
    /\ touches /= <<>>
    /\ totalGraphContentWidth > Px(graphWidth)
    /\ InKnobHitBox(touches[1].x, touches[1].y, TouchPadding)
    /\ InPanArea(touches[1].x, touches[1].y)
    /\ isDraggingSlider
    /\ ~isDraggingGraph

ClampedOffsetX(offset) ==
    IF contentMaxX - contentMinX < Px(graphWidth)
    THEN Max(0, contentMinX - Px(PaddingLeft)
                - (Px(graphWidth) - (contentMaxX - contentMinX)) \div 2)
    ELSE Max(MinOffsetX, Min(offset, MaxOffsetX))

\* C5: on every pointer-move handled while in DraggingViewport, viewOffsetX
\* becomes the clamp of dragStartOffsetX - (pointerX - dragStartX): a function
\* of the values captured at drag start and the current pointer X only, and
\* clamped as soon as the handler returns.
C5_PanFromDragStart ==
    [][\A pos \in PointerPositions :
        /\ DraggingViewport
        /\ \/ HandleMouseDragged(Px(pos[1]), pos[2])
           \/ HandleTouchMove(1, TouchAt(pos))
        => viewOffsetX' = ClampedOffsetX(dragStartOffsetX - (Px(pos[1]) - dragStartX))]_vars

\* a pan in progress has moved the view off the offset captured at its start,
\* to an offset strictly between the two bounds
C5_PanInProgress ==
    /\ DraggingViewport
    /\ viewOffsetX /= dragStartOffsetX
    /\ viewOffsetX > MinOffsetX
    /\ viewOffsetX < MaxOffsetX

\* ---------------------------------------------------------------- C6
\* C6 as stated: from DraggingProbe or DraggingViewport, a mouse release or a
\* touch-end/touch-cancel event returns the controller to Idle and sets
\* lastWiggleTime to the current time.
C6_ReleaseReturnsToIdle ==
    [][~Idle /\ (MouseReleased \/ TouchEnd \/ TouchCancel) =>
        /\ ~isDraggingSlider'
        /\ ~isDraggingGraph'
        /\ lastWiggleTime' = millis]_vars

\* C6 amended: from DraggingProbe or DraggingViewport, a mouse release, or a
\* touch-end/touch-cancel that leaves no touch on the canvas, returns the
\* controller to Idle and sets lastWiggleTime to the current time; a
\* touch-end/touch-cancel that leaves another touch on the canvas changes
\* neither the drag state nor lastWiggleTime.
C6_LastReleaseReturnsToIdle ==
    [][~Idle =>
        /\ MouseReleased \/ ((TouchEnd \/ TouchCancel) /\ touches' = <<>>) =>
              /\ ~isDraggingSlider'
              /\ ~isDraggingGraph'
              /\ lastWiggleTime' = millis
        /\ (TouchEnd \/ TouchCancel) /\ touches' /= <<>> =>
              UNCHANGED <<isDraggingSlider, isDraggingGraph, lastWiggleTime>>]_vars

\* the controller is Idle and the timer holds the time of a release that
\* came after the clock had advanced
C6_ReleasedAfterTick ==
    /\ Idle
    /\ millis > 0
    /\ lastWiggleTime = millis

\* ---------------------------------------------------------------- C7
\* inside the plot area
InPlotArea(x, y) ==
    /\ x > Px(PaddingLeft)
    /\ x < Px(canvasWidth - PaddingRight)
    /\ y > PaddingTop
    /\ y < canvasHeight - PaddingBottom

\* the state a pointer-down at (x, y) is to enter from Idle, the knob's
\* hit-box being padded by pad
EntersFromIdle(x, y, pad) ==
    IF InKnobHitBox(x, y, pad)
    THEN isDraggingSlider' /\ ~isDraggingGraph'
    ELSE IF totalGraphContentWidth > Px(graphWidth) /\ InPlotArea(x, y)
    THEN isDraggingGraph' /\ ~isDraggingSlider'
    ELSE ~isDraggingSlider' /\ ~isDraggingGraph'

\* C7: a pointer-down from Idle inside the knob hit-box (padded by 25 px for
\* touch) enters DraggingProbe; elsewhere it enters DraggingViewport if and
\* only if the content is wider than the viewport and the location is inside
\* the plot area; any other pointer-down leaves the controller Idle.
C7_PointerDownEntry ==
    [][\A pos \in PointerPositions :
        Idle =>
            /\ HandleMousePressed(Px(pos[1]), pos[2]) => EntersFromIdle(Px(pos[1]), pos[2], 0)
            /\ HandleTouchStart(TouchAt(pos)) =>
                   EntersFromIdle(Px(pos[1]), pos[2], TouchPadding)]_vars

\* ---------------------------------------------------------------- C8
\* C8: every draw() frame executed while isDraggingGraph is true leaves
\* hoveredItems and the info-panel content exactly as they were before that
\* frame, although viewOffsetX, and so the entity under the probe, changes
\* between frames.
C8_HoverFrozenWhilePanning ==
    [][isDraggingGraph /\ Draw => UNCHANGED <<hoveredItems, infoBox>>]_vars

\* during a pan the view has moved, and hoveredItems and the info panel still
\* hold the entity a frame found under the probe before, which is no longer
\* what is under the probe
C8_StaleHoverWhilePanning ==
    /\ isDraggingGraph
    /\ viewOffsetX /= dragStartOffsetX
    /\ hoveredItems /= <<>>
    /\ infoBox.items = hoveredItems
    /\ \A k \in 1..Len(hoveredItems) :
           /\ IsPoint(hoveredItems[k])
           /\ Abs(sliderX + viewOffsetX - hoveredItems[k].originalX) >= Px(PointSize) \div 2

\* ---------------------------------------------------------------- C9
\* C9: after every processing pass, for any order of the input activities,
\* the points list is sorted ascending by date: for all i < j,
\* points[i].date <= points[j].date.
C9_PointsSortedByDate ==
    \A i, j \in 1..Len(points) : i < j => points[i].date <= points[j].date

\* the activities array lists a trial before an earlier trial, and both are
\* among the points of a pass run after a view toggle
C9_TrialsGivenOutOfOrder ==
    \E i, j \in 1..Len(activities) :
        /\ viewMode = "3weeks"
        /\ i < j
        /\ activities[i].start_date_local > activities[j].start_date_local
        /\ \E k, l \in 1..Len(points) :
               /\ points[k].type = "trial"
               /\ points[l].type = "trial"
               /\ points[k].activity = activities[i]
               /\ points[l].activity = activities[j]

\* ---------------------------------------------------------------- C10
\* C10: running processData again with the same activities, start/goal data,
\* view mode and canvas size (a resize event that finds the container's size
\* unchanged) yields identical output: the same points, workout columns, week
\* markers and day markers in the same order with the same originalX, y,
\* width and height, and the same yMin, yMax, maxDuration and content bounds.
C10_ProcessDataIdempotent ==
    [][\A size \in ClientSizes :
        /\ WindowResized(size[1], size[2])
        /\ CanvasWidthOf(size[1]) = canvasWidth
        /\ CanvasHeightOf(size[2]) = canvasHeight
        => UNCHANGED <<points, workoutColumns, weekMarkers, dayMarkers, yMin, yMax,
                       maxDuration, contentMinX, contentMaxX>>]_vars

\* the output of a pass in the 3-weeks view that a second pass has to
\* reproduce: trial points, columns, week markers and day markers
C10_RichGeometry ==
    /\ viewMode = "3weeks"
    /\ Len(points) >= 4
    /\ Len(workoutColumns) >= 3
    /\ Len(weekMarkers) >= 2
    /\ Len(dayMarkers) >= 2

\* ---------------------------------------------------------------- C11
\* C11: after processing, totalGraphContentWidth equals graphWidth in the
\* full-span view, and in the 3-weeks view it equals (fullSpan / windowSpan) *
\* graphWidth with windowSpan = min(3 weeks, fullSpan), so that the interval
\* from max(startDate, goalDate - 3 weeks) to goalDate maps onto exactly
\* graphWidth pixels.
C11_ContentWidthScaled ==
    LET fullSpan == goalData.dateOfRace - startData.date
        windowSpan == Min(ThreeWeeksInMillis, fullSpan)
        windowStart == Max(startData.date, goalData.dateOfRace - ThreeWeeksInMillis)
    IN  /\ viewMode = "full" => totalGraphContentWidth = Px(graphWidth)
        /\ viewMode = "3weeks" =>
               /\ totalGraphContentWidth * windowSpan = fullSpan * Px(graphWidth)
               /\ MapTimeToX(goalData.dateOfRace, totalGraphContentWidth)
                      - MapTimeToX(windowStart, totalGraphContentWidth) = Px(graphWidth)

\* the 3-weeks view of a range longer than three weeks: the content is wider
\* than the viewport
C11_RecentWindowStretched ==
    /\ viewMode = "3weeks"
    /\ goalData.dateOfRace - startData.date > ThreeWeeksInMillis
    /\ totalGraphContentWidth > Px(graphWidth)

\* ---------------------------------------------------------------- C12
\* C12: for every time range with goalDate > startDate, in both view modes,
\* mapTimeToX(startDate) = padding.left and mapTimeToX(goalDate) =
\* padding.left + totalGraphContentWidth; the start and goal points, which
\* processData puts half a day right of the mapped start of their day, show
\* the mapping in the processed geometry.
C12_RangeMapsOntoContent ==
    goalData.dateOfRace > startData.date =>
        /\ MapTimeToX(startData.date, totalGraphContentWidth) = Px(PaddingLeft)
        /\ MapTimeToX(goalData.dateOfRace, totalGraphContentWidth)
               = Px(PaddingLeft) + totalGraphContentWidth
        /\ \A k \in 1..Len(points) :
               /\ points[k].type = "start" /\ StartOfDay(startData.date) = startData.date
                      => points[k].originalX
                            = Px(PaddingLeft) + DayWidth(totalGraphContentWidth) \div 2
               /\ points[k].type = "goal"
                      /\ StartOfDay(goalData.dateOfRace) = goalData.dateOfRace
                      => points[k].originalX
                            = Px(PaddingLeft) + totalGraphContentWidth
                              + DayWidth(totalGraphContentWidth) \div 2

\* the 3-weeks view of a range from midnight to midnight: the goal date maps
\* to the right of the canvas and the goal point sits half a day further
C12_GoalMappedBeyondCanvas ==
    /\ viewMode = "3weeks"
    /\ StartOfDay(startData.date) = startData.date
    /\ StartOfDay(goalData.dateOfRace) = goalData.dateOfRace
    /\ MapTimeToX(goalData.dateOfRace, totalGraphContentWidth) > Px(canvasWidth)
    /\ \E k \in 1..Len(points) :
           /\ points[k].type = "goal"
           /\ points[k].originalX > Px(PaddingLeft) + totalGraphContentWidth

\* ---------------------------------------------------------------- C13
\* the least and the greatest duration over all points
LeastDuration ==
    CHOOSE m \in { points[k].timeSeconds : k \in 1..Len(points) } :
        \A k \in 1..Len(points) : m <= points[k].timeSeconds

GreatestDuration ==
    CHOOSE m \in { points[k].timeSeconds : k \in 1..Len(points) } :
        \A k \in 1..Len(points) : m >= points[k].timeSeconds

\* C13: after processing, with m and M the least and greatest durations over
\* all points, yMin = max(0, m - b) and yMax = M + b where
\* b = max(0.1 * (M - m), 30); for start 5100 s, goal 4200 s and no
\* activities this gives b = 90, yMin = 4110 and yMax = 5190.  (yMin and yMax
\* are kept in tenths of a second.)
C13_DurationAxisBuffered ==
    LET tenB == Max(GreatestDuration - LeastDuration, 10 * 30)
    IN  /\ yMin = Max(0, 10 * LeastDuration - tenB)
        /\ yMax = 10 * GreatestDuration + tenB
        /\ /\ startData.currentRaceTime = StartRaceTime
           /\ goalData.targetRaceTime = GoalRaceTime
           /\ activities = <<>>
           => /\ LeastDuration = 4200
              /\ GreatestDuration = 5100
              /\ tenB = 10 * 90
              /\ yMin = 10 * 4110
              /\ yMax = 10 * 5190

\* start 50 s and goal 20 s with no trial: the buffer is the 30 s floor and
\* yMin is held at 0
C13_FloorAndClamp ==
    /\ Len(points) = 2
    /\ LeastDuration = 20
    /\ GreatestDuration = 50
    /\ yMin = 0
    /\ yMax = 10 * 80

\* ---------------------------------------------------------------- C20
\* C20: for any two points of one processing pass with durations d1 < d2,
\* y(d1) > y(d2): Y strictly decreases as duration increases.  (The y of the
\* points of one pass are numerators over the same positive denominator.)
C20_YDecreasesWithDuration ==
    /\ YDen(yMin, yMax) > 0
    /\ \A i, j \in 1..Len(points) :
           points[i].timeSeconds < points[j].timeSeconds => points[i].y > points[j].y

\* a pass has placed a trial slower than the start and a trial faster than
\* the goal: four different durations at four different heights
C20_FourHeights ==
    \E i, j \in 1..Len(points) :
        /\ points[i].type = "trial"
        /\ points[j].type = "trial"
        /\ \A k \in 1..Len(points) :
               /\ points[i].timeSeconds >= points[k].timeSeconds
               /\ points[j].timeSeconds <= points[k].timeSeconds
               /\ points[i].y <= points[k].y
               /\ points[j].y >= points[k].y
        /\ Cardinality({ points[k].y : k \in 1..Len(points) }) >= 4

\* ---------------------------------------------------------------- C14
\* startDate <= activityDate <= goalDate
InRange(activity) ==
    /\ "start_date_local" \in DOMAIN activity
    /\ startData.date <= activity.start_date_local
    /\ activity.start_date_local <= goalData.dateOfRace

\* a positive numeric moving_time
PositiveDuration(activity) ==
    "moving_time" \in DOMAIN activity /\ activity.moving_time > 0

\* the number of points of the given type made from the activity
PointsFrom(activity, type) ==
    Cardinality({ k \in 1..Len(points) :
                    points[k].type = type /\ points[k].activity = activity })

ColumnsFrom(activity) ==
    Cardinality({ k \in 1..Len(workoutColumns) : workoutColumns[k].activity = activity })

\* C14: after processing, points consist of exactly one Start point, exactly
\* one Goal point, and exactly one trial point for each activity with
\* startDate <= activityDate <= goalDate, a positive numeric moving_time and
\* workout_type = 1; workoutColumns holds exactly one column for each
\* activity with startDate <= activityDate <= goalDate and a positive numeric
\* moving_time; activities outside the range or without a positive duration
\* contribute nothing, so zero activities yield two points and zero bars.
C14_GeometryOfQualifyingActivities ==
    /\ PointsFrom(NoActivity, "start") = 1
    /\ PointsFrom(NoActivity, "goal") = 1
    /\ \A i \in 1..Len(activities) :
           LET activity == activities[i]
               qualifies == InRange(activity) /\ PositiveDuration(activity)
           IN  /\ PointsFrom(activity, "trial")
                      = IF qualifies /\ activity.workout_type = 1 THEN 1 ELSE 0
               /\ ColumnsFrom(activity) = IF qualifies THEN 1 ELSE 0
    /\ Len(points) = 2 + Cardinality({ i \in 1..Len(activities) :
                                         PointsFrom(activities[i], "trial") = 1 })
    /\ Len(workoutColumns) = Cardinality({ i \in 1..Len(activities) :
                                             ColumnsFrom(activities[i]) = 1 })
    /\ activities = <<>> => Len(points) = 2 /\ Len(workoutColumns) = 0

\* ---------------------------------------------------------------- C17
\* the record lacks start_date_local or a numeric moving_time
LacksRequiredField(activity) ==
    "start_date_local" \notin DOMAIN activity \/ "moving_time" \notin DOMAIN activity

\* C17: an activity record that lacks a required field (start_date_local, or
\* a numeric moving_time) contributes no point and no workout column to the
\* processed geometry, and all other activities are processed as usual: each
\* of them that is in the range with a positive duration has its column, and
\* its trial point if it is a trial.
C17_IncompleteRecordsSkipped ==
    \A i \in 1..Len(activities) :
        LET activity == activities[i]
        IN  IF LacksRequiredField(activity)
            THEN /\ PointsFrom(activity, "trial") = 0
                 /\ ColumnsFrom(activity) = 0
            ELSE InRange(activity) /\ PositiveDuration(activity) =>
                    /\ ColumnsFrom(activity) = 1
                    /\ activity.workout_type = 1 => PointsFrom(activity, "trial") = 1

\* ---------------------------------------------------------------- C16
\* a time of two or three fields separated by ':', each a decimal numeral or
\* empty (which Number reads as 0), with or without text after a space
ValidTimeString(str) ==
    LET fields == Split(Split(str, " ")[1], ":")
    IN  /\ Len(fields) \in {2, 3}
        /\ \A f \in 1..Len(fields) : \A k \in 1..Len(fields[f]) : IsDigit(fields[f][k])

\* C16: for every time string that is not a valid HH:MM:SS or MM:SS time
\* (wrong number of fields or non-numeric fields), parseTimeToSeconds returns
\* 0 seconds and logs a warning.
C16_InvalidTimeParsesToZero ==
    [][CallParseTimeToSeconds /\ ~ValidTimeString(convString) =>
        /\ convSeconds' = 0
        /\ convWarned']_vars

\* ---------------------------------------------------------------- C19
\* C19: parseTimeToSeconds(formatSecondsToTime(x)) = x for every integer
\* x >= 0, including x >= 360000 where the hours field has more than two
\* digits.
C19_FormatParseRoundTrip ==
    [][CallFormatSecondsToTime /\ convSeconds \in Nat =>
        /\ ParseTimeToSeconds(convString') = convSeconds
        /\ ~ParseTimeWarns(convString')]_vars

\* a number of 100 hours or more has been formatted, its hours field taking
\* three digits, and parsing the string gives the number back
C19_LongHoursRoundTrip ==
    /\ convSeconds >= 360000
    /\ convString \notin TimeStrings
    /\ Len(convString) > 8
    /\ convString = FormatSecondsToTime(convSeconds)
    /\ ParseTimeToSeconds(convString) = convSeconds

\* two workout columns of ordinary activities of one calendar day
SameDayOrdinary(a, b) ==
    /\ a.activity.id /= b.activity.id
    /\ a.activity.workout_type /= TrialWorkoutType
    /\ b.activity.workout_type /= TrialWorkoutType
    /\ StartOfDay(a.date) = StartOfDay(b.date)

\* the vertical extents of two rectangles share more than an edge
Overlap(r, q) == r.y < q.y + q.height /\ q.y < r.y + r.height

\* the rectangle the canvas shows for a column
BarsOf(col) == { canvas.bars[k] : k \in { i \in 1..Len(canvas.bars) :
                                            canvas.bars[i].activity = col.activity.id } }

\* C15: two in-range ordinary activities of the same calendar day give two
\* workout columns with the same originalX and the width of one day; the
\* frame draws them stacked, their vertical extents not overlapping, and
\* when the probe is over the day it leaves both in hoveredItems.
C15_SameDayColumnsStacked ==
    [][Draw =>
        \A i, j \in 1..Len(workoutColumns) :
            SameDayOrdinary(workoutColumns[i], workoutColumns[j]) =>
                LET a == workoutColumns[i]
                    b == workoutColumns[j]
                    sliderContentX == sliderX + viewOffsetX
                IN  /\ a.originalX = b.originalX
                    /\ a.width = DayWidth(totalGraphContentWidth)
                    /\ b.width = a.width
                    /\ \A r \in BarsOf(a)', q \in BarsOf(b)' : ~Overlap(r, q)
                    /\ /\ ~isDraggingGraph
                       /\ sliderContentX >= a.originalX
                       /\ sliderContentX <= a.originalX + a.width
                       => Contains(hoveredItems', a) /\ Contains(hoveredItems', b)]_vars

\* C18: when an exception escapes draw() during a frame, the draw loop is
\* stopped, draw() is not invoked again, and the canvas still shows what it
\* showed before that frame, the last completely drawn one.
C18_FailedFrameLeavesCanvas ==
    [][/\ Draw /\ ~looping' => canvas' = canvas
       /\ ~looping => ~Draw]_vars

\* the two decimal digits of n < 100
TwoDigits(n) == <<Digits[(n \div 10) + 1], Digits[(n % 10) + 1]>>

\* t seconds as HH:MM:SS, for t below 100 hours
Clock(t) ==
    TwoDigits(t \div 3600) \o <<":">> \o TwoDigits((t % 3600) \div 60) \o <<":">>
    \o TwoDigits(t % 60)

\* C21: the displayTime of a trial point is the moving_time t of its
\* activity as zero-padded HH:MM:SS, HH = floor(t / 3600),
\* MM = floor((t mod 3600) / 60), SS = t mod 60.
C21_TrialDisplayTime ==
    \A k \in 1..Len(points) :
        points[k].type = "trial" =>
            points[k].displayTime = Clock(points[k].activity.moving_time)

\* a trial of 3726 seconds is labelled "01:02:06"
C21_Trial3726 ==
    \E k \in 1..Len(points) :
        /\ points[k].type = "trial"
        /\ points[k].activity.moving_time = 3726
        /\ points[k].displayTime = <<"0", "1", ":", "0", "2", ":", "0", "6">>

\* C22: while the probe or the viewport is being dragged no wiggle starts
\* and the knob is drawn at sliderX; a drag release restarts the wiggle
\* timer, which never runs backwards, so that no wiggle starts before
\* wiggleInterval has elapsed since the release.
C22_WiggleSuspendedWhileDragging ==
    [][/\ Draw /\ (isDraggingSlider \/ isDraggingGraph) =>
              /\ ~WiggleStarts
              /\ canvas'.wiggleOffsetX = 0
       /\ MouseReleased /\ (isDraggingSlider \/ isDraggingGraph) => lastWiggleTime' = millis
       /\ lastWiggleTime' >= lastWiggleTime
       /\ Draw /\ WiggleStarts => millis - lastWiggleTime > WiggleInterval]_vars

Occurrences(items, x) == Cardinality({ k \in 1..Len(items) : items[k] = x })

\* the probe, at content coordinate probeContentX, is over the entity
UnderProbe(item, probeContentX) ==
    IF IsPoint(item) THEN 2 * Abs(probeContentX - item.originalX) < Px(PointSize)
    ELSE IF IsColumn(item)
    THEN item.originalX <= probeContentX /\ probeContentX <= item.originalX + item.width
    ELSE Abs(probeContentX - item.originalX) < Px(5)

\* C24: a frame drawn while the viewport is not being dragged leaves in
\* hoveredItems exactly the points, workout columns and week markers under
\* the probe at sliderX + viewOffsetX, each of them once, and nothing else.
C24_HoverIsWhatProbeCovers ==
    [][Draw /\ ~isDraggingGraph =>
        LET probeContentX == sliderX + viewOffsetX
            entities == { points[k] : k \in 1..Len(points) }
                        \cup { workoutColumns[k] : k \in 1..Len(workoutColumns) }
                        \cup { weekMarkers[k] : k \in 1..Len(weekMarkers) }
        IN  /\ \A item \in entities :
                   Occurrences(hoveredItems', item)
                       = IF UnderProbe(item, probeContentX) THEN 1 ELSE 0
            /\ \A k \in 1..Len(hoveredItems') : hoveredItems'[k] \in entities]_vars

\* a frame found a trial point and the workout column of its day under
\* the probe
C24_PointAndColumnHovered ==
    /\ ~isDraggingGraph
    /\ \E k, l \in 1..Len(hoveredItems) :
           /\ IsPoint(hoveredItems[k])
           /\ IsColumn(hoveredItems[l])
           /\ Contains(points, hoveredItems[k])
           /\ Contains(workoutColumns, hoveredItems[l])

\* item is a trial point of the activity with this id
TrialPointOf(item, id) == IsPoint(item) /\ item.type = "trial" /\ item.activity.id = id

\* C25: the info box a frame writes describes no activity twice: of a
\* hovered trial point and the hovered workout column of the same activity
\* only the trial point is rendered, and every hovered column whose
\* activity has no hovered trial point is rendered.
C25_InfoBoxNamesActivityOnce ==
    [][Draw /\ ~isDraggingGraph /\ Len(hoveredItems') > 0 =>
        LET hovered == hoveredItems'
            rendered == infoBox'.items
        IN  /\ \A i, j \in 1..Len(rendered) :
                   /\ i /= j
                   /\ HasActivity(rendered[i])
                   /\ HasActivity(rendered[j])
                   => rendered[i].activity.id /= rendered[j].activity.id
            /\ \A k \in 1..Len(hovered) :
                   /\ TrialPointOf(hovered[k], hovered[k].activity.id)
                      => Contains(rendered, hovered[k])
                   /\ IsColumn(hovered[k])
                      => (Contains(rendered, hovered[k])
                          <=> ~\E l \in 1..Len(hovered) :
                                  TrialPointOf(hovered[l], hovered[k].activity.id))]_vars

\* the info box shows the trial point of an activity whose workout column
\* is hovered too
C25_ColumnEntrySuppressed ==
    /\ infoBox.html = "items"
    /\ \E k, l \in 1..Len(hoveredItems) :
           /\ IsColumn(hoveredItems[k])
           /\ TrialPointOf(hoveredItems[l], hoveredItems[k].activity.id)
           /\ Contains(infoBox.items, hoveredItems[l])
           /\ ~Contains(infoBox.items, hoveredItems[k])

\* the first 00:00 of the week-start weekday on or after the start date's
\* calendar day
FirstCandidate ==
    CHOOSE d \in { AddDays(StartOfDay(startData.date), n) : n \in 0..6 } :
        GetDay(d) = WeekStartDay

\* the candidate falls less than 3 days after the start date
CandidateSuppressed == FirstCandidate - startData.date < 3 * TicksPerDay

\* C26: the week markers lie at 00:00 of the week-start weekday, 7 days
\* apart, none after the goal date, numbered 2, 3, ... in date order; they
\* are the first candidate and every seventh day after it up to the goal
\* date, without the first candidate if and only if it falls less than 3
\* days after the start date.
C26_WeekMarkersEverySevenDays ==
    /\ \A k \in 1..Len(weekMarkers) :
           /\ weekMarkers[k].date = StartOfDay(weekMarkers[k].date)
           /\ GetDay(weekMarkers[k].date) = WeekStartDay
           /\ weekMarkers[k].date <= goalData.dateOfRace
           /\ weekMarkers[k].weekNumber = 2 + (k - 1)
    /\ \A k \in 1..(Len(weekMarkers) - 1) :
           weekMarkers[k + 1].date = AddDays(weekMarkers[k].date, 7)
    /\ { weekMarkers[k].date : k \in 1..Len(weekMarkers) }
           = { d \in { AddDays(FirstCandidate, 7 * j) : j \in 0..5 } :
                   /\ d <= goalData.dateOfRace
                   /\ d = FirstCandidate => ~CandidateSuppressed }

\* the first candidate was suppressed and later ones were kept
C26_FirstCandidateSuppressed ==
    /\ CandidateSuppressed
    /\ FirstCandidate > startData.date
    /\ FirstCandidate <= goalData.dateOfRace
    /\ Len(weekMarkers) >= 2

\* the calendar day of b is the one after the calendar day of a
NextCalendarDay(a, b) == StartOfDay(b.date) = AddDays(StartOfDay(a.date), 1)

\* C27: in a frame each workout column is drawn, in date order, as wide as
\* the distance to the next column if the next column's date is on the
\* following calendar day, and one day wide otherwise (next column on the
\* same day, two or more days later, or no next column).
C27_BridgedToNextDayOnly ==
    [][Draw =>
        \A sorted \in {SortByDate(workoutColumns)} :
            \A k \in 1..Len(sorted) : \A i \in 1..Len(canvas'.bars) :
                canvas'.bars[i].activity = sorted[k].activity.id =>
                    canvas'.bars[i].width
                        = IF k < Len(sorted) /\ NextCalendarDay(sorted[k], sorted[k + 1])
                          THEN sorted[k + 1].originalX - sorted[k].originalX
                          ELSE DayWidth(totalGraphContentWidth)]_vars

\* the number of the Monday-to-Sunday week a date falls in
WeekOf(d) == ((d \div TicksPerDay) + ((EpochWeekday + 6) % 7)) \div 7

\* the frame drew a line of the given style between points i and i + 1
LineDrawn(lines, i, style) ==
    \E k \in 1..Len(lines) :
        lines[k].from = i /\ lines[k].to = i + 1 /\ lines[k].style = style

\* the segment between points i and i + 1 reaches into the drawing area
InDrawingArea(i) ==
    ~LineClipped(points[i].originalX - viewOffsetX, points[i + 1].originalX - viewOffsetX)

C29_StartFirstGoalLast ==
    startData.date < goalData.dateOfRace =>
        /\ points[1].type = "start"
        /\ points[Len(points)].type = "goal"

\* C30: after construction and after any sequence of pointer and touch
\* events, view-mode toggles and window resizes, sliderX lies between
\* padding.left and canvasWidth - padding.right.
C30_SliderInsideCanvas ==
    /\ sliderX >= Px(PaddingLeft)
    /\ sliderX <= Px(canvasWidth - PaddingRight)

\* the probe was dragged to x = 90 on the 220 wide canvas and the window was
\* then made 120 wide while the drag was still active: the probe went to
\* 10 + (80 / 200) * 100
C30_ShrunkWhileDragging ==
    /\ isDraggingSlider
    /\ canvasWidth = 120
    /\ sliderX = Px(50)
====
